---- MODULE Spec2Model ----
(***************************************************************************)
(* A model of git-force-prefix: the prefix matcher (src/src/search.rs),    *)
(* the commit parser (src/src/commit.rs) and the parallel hash search      *)
(* (force_prefix in src/src/main.rs).                                      *)
(*                                                                         *)
(* Strings are sequences of byte values (ASCII codes), so that indexing,   *)
(* slicing and the arithmetic of the hexadecimal match arms are those of   *)
(* the code.  A Result is a record with a tag "Ok", "Err" or "Panic"; an   *)
(* Option is the empty sequence (None) or a one-element sequence (Some).   *)
(***************************************************************************)
EXTENDS Integers, Sequences, FiniteSets

(***************************************************************************)
(* Bounds of the model.                                                    *)
(***************************************************************************)
\* longest pattern source enumerated exhaustively
MaxPatLen == 4
\* number of leading digest bytes that vary in the matcher's inputs
HeadLen == 2
\* longest author or committer name of the well-formed commit texts
MaxNameLen == 2
\* last diagonal (committer offset) the driver loop of the model enters
MaxDiag == 3
\* number of probes the worker pool evaluates at the same time
NumWorkers == 2

\* the size of a SHA-1 digest, [u8; 20]
DigestLen == 20

VARIABLES
    \* ---- prefix matcher (Search::parse, Search::test) ----
    src,         \* the pattern source string handed to Search::parse
    val,         \* the digest handed to Search::test
    search_res,  \* the Result of Search::parse
    test_res,    \* the outcome of Search::test: "true", "false", "panic"
    spc,         \* "start", "parsed", "tested"
    \* ---- commit parser (Commit::parse) and re-rendering ----
    text,        \* the commit text handed to Commit::parse
    origin,      \* the fields a well-formed text was rendered from
    commit_res,  \* the Result of Commit::parse
    rendered,    \* the parsed fields rendered again: Some(text) or None
    cpc,         \* "start", "parsed", "rendered"
    \* ---- force_prefix ----
    commit,      \* the Commit handed to force_prefix
    search,      \* the Search handed to force_prefix
    special,     \* SHA-1 as an oracle: the inputs whose digest is DigestOne
    pc,          \* "start", "while", "find_any", "done", "panic"
    m,           \* the precomputed hash state: the bytes fed to it so far
    b,           \* the buffer b
    c,           \* the buffer c
    iter,        \* the next value of the iterator 0..
    i,           \* the diagonal being searched
    found,
    author_timestamp,
    committer_timestamp,
    pending,     \* find_any: the items of the range not handed out yet
    inflight,    \* find_any: item being evaluated |-> its clone of m
    hits,        \* find_any: the items whose closure returned true
    probes,      \* history: pair <<j, i>> |-> evaluations n and outcome f
    new_commit   \* the Commit force_prefix returns: None or Some

svars == <<src, val, search_res, test_res, spc>>
cvars == <<text, origin, commit_res, rendered, cpc>>
evars == <<commit, search, special, pc, m, b, c, iter, i, found,
           author_timestamp, committer_timestamp, pending, inflight, hits,
           probes, new_commit>>
vars == <<svars, cvars, evars>>

(***************************************************************************)
(* Byte strings.                                                           *)
(***************************************************************************)
\* all strings over alphabet S of length at most n
SeqsUpTo(S, n) == UNION {[1..k -> S] : k \in 0..n}

\* the string made of n copies of byte b
Repeat(byte, n) == [k \in 1..n |-> byte]

(***************************************************************************)
(* src/src/search.rs                                                       *)
(***************************************************************************)
\* The three match arms b'A'...b'F', b'a'...b'f', b'0'...b'9' of
\* Search::parse; -1 stands for the `_` arm.
HexVal(byte) ==
    CASE byte >= 65 /\ byte <= 70  -> byte - 65 + 10
      [] byte >= 97 /\ byte <= 102 -> byte - 97 + 10
      [] byte >= 48 /\ byte <= 57  -> byte - 48
      [] OTHER               -> -1

\* The while loop of Search::parse with loop variable i (idx, 0-based) and the
\* vector built so far; `last` is s.len() - 1.
RECURSIVE ParseLoop(_, _, _, _)
ParseLoop(bytes, last, idx, vec) ==
    IF ~(idx < last)
    THEN [tag |-> "Ok", vec |-> vec]
    ELSE IF HexVal(bytes[idx + 1]) = -1
         THEN [tag |-> "Err", ch |-> bytes[idx + 1], pos |-> idx]
         ELSE IF HexVal(bytes[idx + 2]) = -1
              THEN [tag |-> "Err", ch |-> bytes[idx + 2], pos |-> idx + 1]
              ELSE ParseLoop(bytes, last, idx + 2,
                             Append(vec, HexVal(bytes[idx + 1]) * 16
                                         + HexVal(bytes[idx + 2])))

\* The match on s.len() % 2 that parses the trailing nibble.
ParseOdd(bytes) ==
    IF Len(bytes) % 2 = 0
    THEN [tag |-> "Ok", odd |-> <<>>]
    ELSE IF HexVal(bytes[Len(bytes)]) = -1
         THEN [tag |-> "Err", ch |-> bytes[Len(bytes)], pos |-> Len(bytes) - 1]
         ELSE [tag |-> "Ok", odd |-> <<HexVal(bytes[Len(bytes)])>>]

\* Search::parse.  s.len() - 1 is a usize subtraction: for the empty string
\* it panics where overflow is checked, and where it wraps the loop is
\* entered and bytes[0] is out of bounds, which panics too.
Search_parse(s) ==
    IF Len(s) = 0
    THEN [tag |-> "Panic"]
    ELSE LET loop == ParseLoop(s, Len(s) - 1, 0, <<>>)
         IN  IF loop.tag = "Err"
             THEN loop
             ELSE LET o == ParseOdd(s)
                  IN  IF o.tag = "Err"
                      THEN o
                      ELSE [tag |-> "Ok",
                            search |-> [compare_len |-> Len(loop.vec),
                                        bytes |-> loop.vec,
                                        odd |-> o.odd]]

\* Search::test.  The slice val[0..compare_len] panics when compare_len
\* exceeds val.len(), and so does the index val[compare_len] when
\* compare_len is val.len().
Search_test(self, v) ==
    IF self.compare_len > Len(v)
    THEN "panic"
    ELSE IF SubSeq(v, 1, self.compare_len) = self.bytes
         THEN IF self.odd = <<>>
              THEN "true"
              ELSE IF self.compare_len >= Len(v)
                   THEN "panic"
                   ELSE IF v[self.compare_len + 1] \div 16 = self.odd[1]
                        THEN "true"
                        ELSE "false"
         ELSE "false"

(***************************************************************************)
(* The prefix matcher applied to bounded inputs.                           *)
(***************************************************************************)
\* '/', '0', '9', 'A', 'f', 'g': the hexadecimal ranges and their borders
SearchAlphabet == {47, 48, 57, 65, 102, 103}

\* patterns as long as a digest has nibbles, and a little longer
LongSources == {Repeat(48, n) : n \in (2 * DigestLen - 1)..(2 * DigestLen + 2)}

PatternSources == SeqsUpTo(SearchAlphabet, MaxPatLen) \cup LongSources

\* 0x00, 0x09, 0x9a, 0xaf
DigestBytes == {0, 9, 154, 175}

Digests == {head \o Repeat(0, DigestLen - HeadLen) : head \in [1..HeadLen -> DigestBytes]}

\* force_prefix is not running while the parsers are exercised
EngineIdle ==
    /\ commit = <<>>
    /\ search = <<>>
    /\ special = {}
    /\ pc = "idle"
    /\ m = <<>>
    /\ b = <<>>
    /\ c = <<>>
    /\ iter = 0
    /\ i = 0
    /\ found = FALSE
    /\ author_timestamp = 0
    /\ committer_timestamp = 0
    /\ pending = {}
    /\ inflight = <<>>
    /\ hits = {}
    /\ probes = <<>>
    /\ new_commit = <<>>

\* the commit parser is idle while the matcher is exercised
CommitIdle ==
    /\ text = <<>>
    /\ origin = [wf |-> FALSE]
    /\ commit_res = [tag |-> "None"]
    /\ rendered = <<>>
    /\ cpc = "idle"

SearchInit ==
    /\ CommitIdle
    /\ EngineIdle
    /\ src \in PatternSources
    /\ val \in Digests
    /\ search_res = [tag |-> "None"]
    /\ test_res = "none"
    /\ spc = "start"

DoSearchParse ==
    /\ spc = "start"
    /\ search_res' = Search_parse(src)
    /\ spc' = "parsed"
    /\ UNCHANGED <<src, val, test_res, cvars, evars>>

DoSearchTest ==
    /\ spc = "parsed"
    /\ search_res.tag = "Ok"
    /\ test_res' = Search_test(search_res.search, val)
    /\ spc' = "tested"
    /\ UNCHANGED <<src, val, search_res, cvars, evars>>

SearchNext == DoSearchParse \/ DoSearchTest

SpecSearch == SearchInit /\ [][SearchNext]_vars

(***************************************************************************)
(* C2.  Search::parse returns Ok for every non-empty string of hexadecimal *)
(* characters; for every other string, the empty string included, it       *)
(* returns Err with the leftmost invalid character and its 0-based index;  *)
(* it never aborts.                                                        *)
(***************************************************************************)
IsHexString(s) == Len(s) > 0 /\ \A k \in 1..Len(s) : HexVal(s[k]) # -1

LeftmostInvalid(s) == CHOOSE k \in 1..Len(s) :
    /\ HexVal(s[k]) = -1
    /\ \A h \in 1..(k - 1) : HexVal(s[h]) # -1

C2_ParseTotal ==
    spc # "start" =>
        /\ search_res.tag # "Panic"
        /\ IsHexString(src) => search_res.tag = "Ok"
        /\ ~IsHexString(src) =>
              /\ search_res.tag = "Err"
              /\ Len(src) > 0 =>
                    /\ search_res.pos = LeftmostInvalid(src) - 1
                    /\ search_res.ch = src[LeftmostInvalid(src)]

\* the same statement for the non-empty strings alone
ParseTotalNonEmpty == Len(src) > 0 => C2_ParseTotal

(***************************************************************************)
(* C3.  For a pattern parsed from a source of length L and a 20-byte       *)
(* digest h, Search::test returns true iff the first floor(L/2) bytes of h *)
(* are the parsed bytes and, for odd L, the high nibble of the next byte   *)
(* is the parsed trailing nibble; it returns a boolean for every L.        *)
(***************************************************************************)
\* the byte the source spells at (1-based) position k of the parsed bytes
SourceByte(s, k) == HexVal(s[2 * k - 1]) * 16 + HexVal(s[2 * k])

PrefixMatches(s, h) ==
    /\ Len(s) \div 2 <= Len(h)
    /\ \A k \in 1..(Len(s) \div 2) : h[k] = SourceByte(s, k)
    /\ Len(s) % 2 = 1 =>
          /\ Len(s) \div 2 < Len(h)
          /\ h[Len(s) \div 2 + 1] \div 16 = HexVal(s[Len(s)])

C3_TestIff ==
    spc = "tested" =>
        /\ test_res \in {"true", "false"}
        /\ test_res = "true" <=> PrefixMatches(src, val)

\* the same statement for the patterns no longer than the digest's nibbles
TestIffWithinDigest == Len(src) <= 2 * DigestLen => C3_TestIff

(***************************************************************************)
(* String operations of the Rust standard library used by Commit::parse.   *)
(***************************************************************************)
MinOf(S) == CHOOSE x \in S : \A y \in S : x <= y
MaxOf(S) == CHOOSE x \in S : \A y \in S : x >= y

\* str::find: the 0-based index of the first occurrence of pat, -1 for None
Find(s, pat) ==
    LET idxs == {k \in 0..(Len(s) - Len(pat)) : SubSeq(s, k + 1, k + Len(pat)) = pat}
    IN  IF idxs = {} THEN -1 ELSE MinOf(idxs)

\* str::splitn(2, pat): the pieces the iterator yields
SplitN2(s, pat) ==
    IF Find(s, pat) = -1
    THEN <<s>>
    ELSE <<SubSeq(s, 1, Find(s, pat)),
           SubSeq(s, Find(s, pat) + Len(pat) + 1, Len(s))>>

\* str::rsplitn(n, b) for a one-byte pattern: the pieces in the order the
\* iterator yields them, the last one holding the rest of the string
RECURSIVE RSplitN(_, _, _)
RSplitN(s, n, sep) ==
    LET idxs == {k \in 1..Len(s) : s[k] = sep}
    IN  IF n = 1 \/ idxs = {}
        THEN <<s>>
        ELSE <<SubSeq(s, MaxOf(idxs) + 1, Len(s))>>
             \o RSplitN(SubSeq(s, 1, MaxOf(idxs) - 1), n - 1, sep)

IsDigits(s) == Len(s) > 0 /\ \A k \in 1..Len(s) : s[k] >= 48 /\ s[k] <= 57

RECURSIVE DecValue(_)
DecValue(s) == IF s = <<>> THEN 0
               ELSE DecValue(SubSeq(s, 1, Len(s) - 1)) * 10 + (s[Len(s)] - 48)

\* str::parse::<i64>: an optional sign, then at least one decimal digit.
\* (The tokens of the model are too short to leave the range of i64.)
ParseI64(tok) ==
    LET digits == IF tok # <<>> /\ tok[1] \in {43, 45} THEN Tail(tok) ELSE tok
    IN  IF ~IsDigits(digits)
        THEN [ok |-> FALSE, v |-> 0]
        ELSE [ok |-> TRUE,
              v |-> IF tok[1] = 45 THEN 0 - DecValue(digits) ELSE DecValue(digits)]

\* i64::to_string
RECURSIVE DecDigits(_)
DecDigits(n) == IF n < 10 THEN <<48 + n>>
                ELSE DecDigits(n \div 10) \o <<48 + (n % 10)>>

ToString(n) == IF n < 0 THEN <<45>> \o DecDigits(0 - n) ELSE DecDigits(n)

(***************************************************************************)
(* src/src/commit.rs                                                       *)
(***************************************************************************)
NlNl == <<10, 10>>                                \* "\n\n"
AuthorLit == <<97, 117, 116, 104, 111, 114>>      \* "author"
CommitterLit == <<99, 111, 109, 109, 105, 116, 116, 101, 114>>  \* "committer"

CommitError == [tag |-> "Err"]

\* &piece[n..]: the slice panics when n exceeds the length of the piece
SliceFrom(piece, n) ==
    IF n > Len(piece)
    THEN [tag |-> "Panic"]
    ELSE [tag |-> "Ok", v |-> SubSeq(piece, n + 1, Len(piece))]

\* The split of one of the two lines into its three parts: rsplitn(3, ' '),
\* the timezone, the timestamp and its parse, and the value with the first
\* `skip` bytes stripped.
ParsePerson(line, skip) ==
    LET parts == RSplitN(line, 3, 32)
    IN  IF Len(parts) < 2
        THEN CommitError
        ELSE IF ~ParseI64(parts[2]).ok
             THEN CommitError
             ELSE IF Len(parts) < 3
                  THEN CommitError
                  ELSE IF SliceFrom(parts[3], skip).tag = "Panic"
                       THEN [tag |-> "Panic"]
                       ELSE [tag |-> "Ok",
                             tz |-> parts[1],
                             timestamp |-> ParseI64(parts[2]).v,
                             who |-> SliceFrom(parts[3], skip).v]

\* Commit::parse
Commit_parse(txt) ==
    LET parts == SplitN2(txt, NlNl)
    IN  IF Len(parts) < 2
        THEN CommitError
        ELSE
        LET header == parts[1]
            message == parts[2]
            author_line_start_idx == Find(header, AuthorLit)
        IN  IF author_line_start_idx = -1
            THEN CommitError
            ELSE
            LET preamble == SubSeq(header, 1, author_line_start_idx)
                rest == SubSeq(header, author_line_start_idx + 1, Len(header))
                author_line_end_idx == Find(rest, <<10>>)
            IN  IF author_line_end_idx = -1
                THEN CommitError
                ELSE
                LET author_line == SubSeq(rest, 1, author_line_end_idx)
                    committer_line == SubSeq(rest, author_line_end_idx + 1, Len(rest))
                    au == ParsePerson(author_line, 7)
                IN  IF au.tag # "Ok"
                    THEN au
                    ELSE
                    LET co == ParsePerson(committer_line, 11)
                    IN  IF co.tag # "Ok"
                        THEN co
                        ELSE [tag |-> "Ok",
                              commit |-> [preamble |-> preamble,
                                          author |-> au.who,
                                          author_timestamp |-> au.timestamp,
                                          author_timezone |-> au.tz,
                                          committer |-> co.who,
                                          committer_timestamp |-> co.timestamp,
                                          committer_timezone |-> co.tz,
                                          message |-> message]]

(***************************************************************************)
(* src/src/main.rs: the three buffers force_prefix renders from a Commit.  *)
(***************************************************************************)
\* format!("{}author {} ", commit.preamble, commit.author)
BufferA(cm) == cm.preamble \o AuthorLit \o <<32>> \o cm.author \o <<32>>

\* format!(" {}\ncommitter {} ", commit.author_timezone, commit.committer)
BufferB(cm) ==
    <<32>> \o cm.author_timezone \o <<10>> \o CommitterLit \o <<32>>
    \o cm.committer \o <<32>>

\* format!(" {}\n\n{}", commit.committer_timezone, commit.message)
BufferC(cm) == <<32>> \o cm.committer_timezone \o NlNl \o cm.message

\* the content hashed for a pair of timestamps: A, timestamp, B, timestamp, C
Content(cm, at, ct) ==
    BufferA(cm) \o ToString(at) \o BufferB(cm)
    \o ToString(ct) \o BufferC(cm)

(***************************************************************************)
(* The commit parser applied to bounded inputs: the well-formed texts,     *)
(* rendered from fields, and texts with a broken token or separator.       *)
(***************************************************************************)
TreeLine == <<116, 114, 101, 101, 32, 97, 10>>             \* "tree a\n"
ParentLine == <<112, 97, 114, 101, 110, 116, 32, 98, 10>>  \* "parent b\n"

\* no preamble, a tree, a tree and a parent, and a line that holds the
\* word author: "xauthor\n"
Preambles == {<<>>, TreeLine, TreeLine \o ParentLine, <<120>> \o AuthorLit \o <<10>>}

\* names over 'A' and ' '
Names == SeqsUpTo({65, 32}, MaxNameLen)

Timestamps == {0 - 5, 0, 17}

\* "Z", "-05"
Timezones == {<<90>>, <<45, 48, 53>>}

\* "", "m\n", "s\n\nb\n"
Messages == {<<>>, <<109, 10>>, <<115, 10, 10, 98, 10>>}

CommitFields ==
    [preamble : Preambles,
     author : Names,
     author_timestamp : Timestamps,
     author_timezone : Timezones,
     committer : Names,
     committer_timestamp : Timestamps,
     committer_timezone : {<<90>>},
     message : Messages]

\* "author ", "Author ", "xauthor "
AuthorTokens == {AuthorLit \o <<32>>,
                 <<65>> \o Tail(AuthorLit) \o <<32>>,
                 <<120>> \o AuthorLit \o <<32>>}

\* "committer ", "Committer ", "foo "
CommitterTokens == {CommitterLit \o <<32>>,
                    <<67>> \o Tail(CommitterLit) \o <<32>>,
                    <<102, 111, 111, 32>>}

\* "1", "-1", "10", "+1", "01", "", "-", "x", "1x"
TimestampTokens == {<<49>>, <<45, 49>>, <<49, 48>>, <<43, 49>>, <<48, 49>>,
                    <<>>, <<45>>, <<120>>, <<49, 120>>}

\* "\n\n" and "\n"
Separators == {NlNl, <<10>>}

\* a text put together from tokens that may be broken
Compose(atok, ats, ctok, cts, sep) ==
    TreeLine \o atok \o <<65, 32>> \o ats \o <<32, 90, 10>>
    \o ctok \o <<67, 32>> \o cts \o <<32, 90>> \o sep \o <<109, 10>>

BrokenTexts ==
    {Compose(atok, ats, ctok, cts, sep) :
        atok \in AuthorTokens, ats \in TimestampTokens,
        ctok \in CommitterTokens, cts \in TimestampTokens, sep \in Separators}

SearchIdle ==
    /\ src = <<>>
    /\ val = <<>>
    /\ search_res = [tag |-> "None"]
    /\ test_res = "none"
    /\ spc = "idle"

CommitInit ==
    /\ SearchIdle
    /\ EngineIdle
    /\ \/ \E cf \in CommitFields :
             /\ origin = [wf |-> TRUE, fields |-> cf]
             /\ text = Content(cf, cf.author_timestamp, cf.committer_timestamp)
       \/ /\ origin = [wf |-> FALSE]
          /\ text \in BrokenTexts
    /\ commit_res = [tag |-> "None"]
    /\ rendered = <<>>
    /\ cpc = "start"

DoCommitParse ==
    /\ cpc = "start"
    /\ commit_res' = Commit_parse(text)
    /\ cpc' = "parsed"
    /\ UNCHANGED <<text, origin, rendered, svars, evars>>

\* the parsed fields rendered again, with the timestamps as parsed
DoRender ==
    /\ cpc = "parsed"
    /\ commit_res.tag = "Ok"
    /\ rendered' = <<Content(commit_res.commit,
                             commit_res.commit.author_timestamp,
                             commit_res.commit.committer_timestamp)>>
    /\ cpc' = "rendered"
    /\ UNCHANGED <<text, origin, commit_res, svars, evars>>

CommitNext == DoCommitParse \/ DoRender

SpecCommit == CommitInit /\ [][CommitNext]_vars

(***************************************************************************)
(* C4.  Round trip: for every well-formed commit text, rendering the       *)
(* fields Commit::parse returns reproduces the text exactly.               *)
(***************************************************************************)
C4_RoundTrip ==
    origin.wf =>
        /\ cpc = "parsed" => commit_res.tag = "Ok"
        /\ cpc = "rendered" => rendered = <<text>>

\* the same statement for the well-formed texts whose preamble does not
\* hold the word author
RoundTripPlainPreamble ==
    (origin.wf /\ Find(origin.fields.preamble, AuthorLit) = -1) =>
        /\ cpc = "parsed" => commit_res.tag = "Ok"
        /\ cpc = "rendered" => rendered = <<text>>

\* a round trip of a text whose names hold spaces and whose message holds
\* a blank line
RoundTripWitness ==
    /\ cpc = "rendered"
    /\ origin.wf
    /\ origin.fields.preamble = TreeLine \o ParentLine
    /\ origin.fields.author = <<65, 32>>
    /\ origin.fields.committer = <<32, 65>>
    /\ Find(origin.fields.message, NlNl) # -1
    /\ commit_res.commit = origin.c
    /\ rendered = <<text>>

(***************************************************************************)
(* C5.  Commit::parse returns CommitError, and neither a Commit nor an     *)
(* abort, for every input with no blank-line separator, or whose header    *)
(* has no line starting with "author " or no later line starting with      *)
(* "committer ", or whose author or committer timestamp token is not a     *)
(* base-10 integer.                                                        *)
(***************************************************************************)
\* the lines of s, split at "\n"
RECURSIVE SplitLines(_)
SplitLines(s) ==
    IF Find(s, <<10>>) = -1
    THEN <<s>>
    ELSE <<SubSeq(s, 1, Find(s, <<10>>))>>
         \o SplitLines(SubSeq(s, Find(s, <<10>>) + 2, Len(s)))

StartsWith(s, tok) == Len(s) >= Len(tok) /\ SubSeq(s, 1, Len(tok)) = tok

HasSeparator(t) == Find(t, NlNl) # -1

HeaderLines(t) == SplitLines(SubSeq(t, 1, Find(t, NlNl)))

AuthorLines(t) ==
    {k \in 1..Len(HeaderLines(t)) : StartsWith(HeaderLines(t)[k], AuthorLit \o <<32>>)}

CommitterLines(t) ==
    {k \in 1..Len(HeaderLines(t)) :
        /\ k > MinOf(AuthorLines(t))
        /\ StartsWith(HeaderLines(t)[k], CommitterLit \o <<32>>)}

\* the last but one of the tokens of a line, <<>> when there is none
TimestampToken(line) ==
    IF Len(RSplitN(line, 3, 32)) < 2 THEN <<>> ELSE RSplitN(line, 3, 32)[2]

IsBase10(tok) ==
    \/ IsDigits(tok)
    \/ Len(tok) > 1 /\ tok[1] \in {43, 45} /\ IsDigits(Tail(tok))

MustFail(t) ==
    \/ ~HasSeparator(t)
    \/ AuthorLines(t) = {}
    \/ CommitterLines(t) = {}
    \/ ~IsBase10(TimestampToken(HeaderLines(t)[MinOf(AuthorLines(t))]))
    \/ ~IsBase10(TimestampToken(HeaderLines(t)[MinOf(CommitterLines(t))]))

C5_ParseErrors == (cpc # "start" /\ MustFail(text)) => commit_res.tag = "Err"

\* the same statement for the texts whose two tokens are in place
ParseErrorsTokensInPlace ==
    (cpc # "start" /\ MustFail(text) /\ HasSeparator(text)
     /\ AuthorLines(text) # {} /\ CommitterLines(text) # {})
        => commit_res.tag = "Err"

\* the same statement for the texts with no blank-line separator
ParseErrorsNoSeparator ==
    (cpc # "start" /\ ~HasSeparator(text)) => commit_res.tag = "Err"

(***************************************************************************)
(* src/src/main.rs: force_prefix.                                          *)
(*                                                                         *)
(* The sha1 crate is modelled by what force_prefix relies on: a hash state *)
(* is the string of bytes fed to it so far, and its digest is a function   *)
(* of that string alone.  The function is an oracle drawn by the initial   *)
(* state: the inputs in `special` have the digest DigestOne, every other   *)
(* input has the digest DigestZero.                                        *)
(***************************************************************************)
\* the width the framing header assumes for either timestamp
TimestampWidth == 10

\* 0xab 0xcd 0x00 ... and 0x00 0x00 0x00 ...
DigestOne == <<171, 205>> \o Repeat(0, DigestLen - 2)
DigestZero == Repeat(0, DigestLen)

Sha1New == <<>>
Sha1Update(state, bytes) == state \o bytes
Sha1Digest(state) == IF state \in special THEN DigestOne ELSE DigestZero

CommitSp == <<99, 111, 109, 109, 105, 116, 32>>     \* "commit "

\* let len = a.len() + 10 + b.len() + 10 + c.len();
FramingLen(cm) ==
    Len(BufferA(cm)) + TimestampWidth + Len(BufferB(cm)) + TimestampWidth
    + Len(BufferC(cm))

\* the hash state m after the four updates that precede the loop
PrefixState(cm) ==
    Sha1Update(
        Sha1Update(
            Sha1Update(
                Sha1Update(Sha1New, CommitSp),
                ToString(FramingLen(cm))),
            <<0>>),
        BufferA(cm))

\* the bytes the hash state of calculate_hash_predigest has been fed when
\* it is finalised
HashInput(mm, at, bb, ct, cc) ==
    Sha1Update(
        Sha1Update(
            Sha1Update(
                Sha1Update(mm, ToString(at)),
                bb),
            ToString(ct)),
        cc)

calculate_hash_predigest(mm, at, bb, ct, cc) ==
    Sha1Digest(HashInput(mm, at, bb, ct, cc))

\* iter.next() of an iterator that yields its value again
IterNextRepeats(it) == [value |-> it, rest |-> it]

\* line 105: iter.next() of the iterator 0.. whose next value is `it`
IterNext(it) == [value |-> it, rest |-> it + 1]

\* the range (0..(i + 1)) of diagonal d, without its last item
DiagonalRangeShort(d) == {j \in 0..(d + 1) : j < d}

\* the range (0..(i + 1)) of diagonal d, with its upper end included
DiagonalRangeLong(d) == {j \in 0..(d + 1) : j <= d + 1}

\* the range (0..(i + 1)) of diagonal d
DiagonalRange(d) == {j \in 0..(d + 1) : j < d + 1}

\* lines 111 and 112: the two timestamps of the probe of item j on
\* diagonal d
ProbeTimestamps(cm, j, d) ==
    [author_timestamp |-> cm.author_timestamp + j,
     committer_timestamp |-> cm.author_timestamp + d]

\* lines 129 to 133 with the committer's own timestamp as the base
AfterFindCommitterBase(result, cm, d, locals) ==
    IF result # <<>>
    THEN [found |-> TRUE,
          author_timestamp |-> cm.author_timestamp + result[1],
          committer_timestamp |-> cm.committer_timestamp + d]
    ELSE locals

\* lines 129 to 133 without found = true
AfterFindNotFound(result, cm, d, locals) ==
    IF result # <<>>
    THEN [found |-> locals.found,
          author_timestamp |-> cm.author_timestamp + result[1],
          committer_timestamp |-> cm.author_timestamp + d]
    ELSE locals

\* lines 129 to 133: if let Some(j) = result, the values of found,
\* author_timestamp and committer_timestamp after it
AfterFind(result, cm, d, locals) ==
    IF result # <<>>
    THEN [found |-> TRUE,
          author_timestamp |-> cm.author_timestamp + result[1],
          committer_timestamp |-> cm.author_timestamp + d]
    ELSE locals

\* find_any hands back one of the items whose closure returned true (the
\* first one found in time, not the first of the range), None if there is
\* none
FindAnyResults(found_items) ==
    IF found_items = {} THEN {<<>>} ELSE {<<j>> : j \in found_items}

\* the history entry of pair p extended by one evaluation with digest h
\* and outcome f
Logged(log, p, f, h) ==
    [q \in DOMAIN log \cup {p} |->
        IF q = p
        THEN [n |-> IF p \in DOMAIN log THEN log[p].n + 1 ELSE 1,
              f |-> f, h |-> h]
        ELSE log[q]]

\* m.clone(): a hash state of its own with the bytes fed so far
Sha1Clone(state) == state

\* line 114 with m itself handed to calculate_hash_predigest: the updates
\* of the probe land in m
SharedAfterProbeInPlace(shared, own) == own

\* lines 114 and 191: calculate_hash_predigest takes its hash state by
\* value and the closure hands it m.clone(), so the state `own` the probe
\* has updated is not m, and m is after the probe what it was before
SharedAfterProbe(shared, own) == shared

\* lines 79 to 101: the buffers and the precomputed hash state
Precompute ==
    /\ pc = "start"
    /\ m' = PrefixState(commit)
    /\ b' = BufferB(commit)
    /\ c' = BufferC(commit)
    /\ iter' = 0
    /\ found' = FALSE
    /\ author_timestamp' = 0
    /\ committer_timestamp' = 0
    /\ pc' = "while"
    /\ UNCHANGED <<commit, search, special, i, pending, inflight, hits,
                   probes, new_commit, svars, cvars>>

\* lines 104 to 110: while !found, the next diagonal and its fan-out
NextDiagonal ==
    /\ pc = "while"
    /\ ~found
    /\ iter <= MaxDiag
    /\ i' = IterNext(iter).value
    /\ iter' = IterNext(iter).rest
    /\ pending' = DiagonalRange(IterNext(iter).value)
    /\ inflight' = <<>>
    /\ hits' = {}
    /\ pc' = "find_any"
    /\ UNCHANGED <<commit, search, special, m, b, c, found, author_timestamp,
                   committer_timestamp, probes, new_commit, svars, cvars>>

\* a worker takes item j of the range and clones the hash state for it
\* (m.clone()); find_any only attempts to stop handing out items once a
\* match is found, so an item may be taken after one
ProbeStart(j) ==
    /\ pc = "find_any"
    /\ j \in pending
    /\ Cardinality(DOMAIN inflight) < NumWorkers
    /\ pending' = pending \ {j}
    /\ inflight' = [k \in DOMAIN inflight \cup {j} |->
                        IF k = j THEN Sha1Clone(m) ELSE inflight[k]]
    /\ UNCHANGED <<commit, search, special, pc, m, b, c, iter, i, found,
                   author_timestamp, committer_timestamp, hits, probes,
                   new_commit, svars, cvars>>

\* lines 111 to 126: the closure of find_any for item j; a panic of
\* search.test unwinds force_prefix
ProbeFinish(j) ==
    /\ pc = "find_any"
    /\ j \in DOMAIN inflight
    /\ LET ts == ProbeTimestamps(commit, j, i)
           h == calculate_hash_predigest(inflight[j], ts.author_timestamp, b,
                                         ts.committer_timestamp, c)
           f == Search_test(search, h)
       IN  /\ probes' = Logged(probes, <<j, i>>, f, h)
           /\ hits' = IF f = "true" THEN hits \cup {j} ELSE hits
           /\ pc' = IF f = "panic" THEN "panic" ELSE pc
           /\ m' = SharedAfterProbe(m,
                                    HashInput(inflight[j],
                                              ts.author_timestamp, b,
                                              ts.committer_timestamp, c))
    /\ inflight' = [k \in DOMAIN inflight \ {j} |-> inflight[k]]
    /\ UNCHANGED <<commit, search, special, b, c, iter, i, found,
                   author_timestamp, committer_timestamp, pending,
                   new_commit, svars, cvars>>

\* lines 110 and 129 to 133: find_any returns once no probe is running and
\* either the range is used up or a match was found
FindAnyReturn ==
    /\ pc = "find_any"
    /\ DOMAIN inflight = {}
    /\ pending = {} \/ hits # {}
    /\ \E result \in FindAnyResults(hits) :
          LET after == AfterFind(result, commit, i,
                                 [found |-> found,
                                  author_timestamp |-> author_timestamp,
                                  committer_timestamp |-> committer_timestamp])
          IN  /\ found' = after.found
              /\ author_timestamp' = after.author_timestamp
              /\ committer_timestamp' = after.committer_timestamp
    /\ pc' = "while"
    /\ UNCHANGED <<commit, search, special, m, b, c, iter, i, pending,
                   inflight, hits, probes, new_commit, svars, cvars>>

\* lines 104 and 156 to 161: the loop ends and the new commit is returned
Return ==
    /\ pc = "while"
    /\ found
    /\ new_commit' = <<[commit EXCEPT
                           !.author_timestamp = author_timestamp,
                           !.committer_timestamp = committer_timestamp]>>
    /\ pc' = "done"
    /\ UNCHANGED <<commit, search, special, m, b, c, iter, i, found,
                   author_timestamp, committer_timestamp, pending, inflight,
                   hits, probes, svars, cvars>>

(***************************************************************************)
(* force_prefix applied to bounded inputs.                                 *)
(***************************************************************************)
\* the value of the test of the specification, a value one short of ten
\* digits, and a negative one
EngineTimestamps == {1524680608, 999999999, 0 - 1}

EngineCommits ==
    {[preamble |-> TreeLine,
      author |-> <<65>>,
      author_timestamp |-> t,
      author_timezone |-> <<90>>,
      committer |-> <<67>>,
      committer_timestamp |-> t + 600,
      committer_timezone |-> <<45, 48, 53>>,
      message |-> <<109, 10>>] : t \in EngineTimestamps}

\* "abc", "0", and forty-one times "0"
EnginePatterns == {<<97, 98, 99>>, <<48>>, Repeat(48, 2 * DigestLen + 1)}

\* the offset pairs <<author_offset, committer_offset>> of the diagonals
\* the model enters
Triangle == {p \in (0..MaxDiag) \X (0..MaxDiag) : p[1] <= p[2]}

\* the inputs force_prefix hashes for commit cm on these diagonals
CandidateInputs(cm) ==
    {HashInput(PrefixState(cm), cm.author_timestamp + p[1], BufferB(cm),
               cm.author_timestamp + p[2], BufferC(cm)) : p \in Triangle}

Init ==
    /\ SearchIdle
    /\ CommitIdle
    /\ commit \in EngineCommits
    /\ search \in {Search_parse(s).search : s \in EnginePatterns}
    /\ special \in {{}} \cup {{x, y} : x, y \in CandidateInputs(commit)}
    /\ pc = "start"
    /\ m = <<>>
    /\ b = <<>>
    /\ c = <<>>
    /\ iter = 0
    /\ i = 0
    /\ found = FALSE
    /\ author_timestamp = 0
    /\ committer_timestamp = 0
    /\ pending = {}
    /\ inflight = <<>>
    /\ hits = {}
    /\ probes = <<>>
    /\ new_commit = <<>>

Next ==
    \/ Precompute
    \/ NextDiagonal
    \/ \E j \in 0..(MaxDiag + 1) : ProbeStart(j)
    \/ \E j \in 0..(MaxDiag + 1) : ProbeFinish(j)
    \/ FindAnyReturn
    \/ Return

Spec == Init /\ [][Next]_vars

\* the scheduler lets the driver and every worker run
FairSpec == Spec /\ WF_vars(Next)

(***************************************************************************)
(* What the claims about force_prefix speak of.                            *)
(***************************************************************************)
\* the outcome of Search::test on the digest of the commit rendered with
\* the offsets of pair p
Outcome(p) ==
    Search_test(search,
                Sha1Digest(CommitSp \o ToString(FramingLen(commit)) \o <<0>>
                           \o Content(commit,
                                      commit.author_timestamp + p[1],
                                      commit.author_timestamp + p[2])))

Matches(p) == Outcome(p) = "true"

\* the offsets of the commit force_prefix returned
Returned ==
    <<new_commit[1].author_timestamp - commit.author_timestamp,
      new_commit[1].committer_timestamp - commit.author_timestamp>>

(***************************************************************************)
(* C1.  force_prefix always reports the matching pair with the smallest    *)
(* committer_offset and, among the matching pairs with that                *)
(* committer_offset, the one with the smallest author_offset, whatever the *)
(* interleaving of the probes of a diagonal.                               *)
(***************************************************************************)
C1_SmallestPair ==
    pc = "done" =>
        /\ Matches(Returned)
        /\ \A p \in Triangle :
              Matches(p) =>
                  \/ Returned[2] < p[2]
                  \/ Returned[2] = p[2] /\ Returned[1] <= p[1]

\* C1 as amended: force_prefix always reports a matching pair with the
\* smallest committer_offset; which of the matching pairs of that diagonal
\* it reports depends on the interleaving of the probes.
C1_SmallestDiagonal ==
    pc = "done" =>
        /\ Returned \in Triangle
        /\ Matches(Returned)
        /\ \A p \in Triangle : Matches(p) => Returned[2] <= p[2]

\* two probes of the diagonal match and the later one of the range is
\* reported
C1_Witness ==
    /\ pc = "done"
    /\ Matches(Returned)
    /\ \E p \in Triangle :
          /\ Matches(p)
          /\ p[2] = Returned[2]
          /\ p[1] < Returned[1]
          /\ p \in DOMAIN probes

(***************************************************************************)
(* C6.  The Commit force_prefix returns equals the input Commit in every   *)
(* field but the two timestamps, and a probe <<j, i>> with 0 <= j <= i     *)
(* whose digest satisfied Search::test was evaluated such that the         *)
(* returned author_timestamp is commit.author_timestamp + j and the        *)
(* returned committer_timestamp is commit.author_timestamp + i.            *)
(***************************************************************************)
C6_ReturnedCommit ==
    pc = "done" =>
        /\ new_commit[1] = [commit EXCEPT
                               !.author_timestamp = new_commit[1].author_timestamp,
                               !.committer_timestamp = new_commit[1].committer_timestamp]
        /\ \E p \in DOMAIN probes :
              /\ 0 <= p[1] /\ p[1] <= p[2]
              /\ probes[p].f = "true"
              /\ new_commit[1].author_timestamp = commit.author_timestamp + p[1]
              /\ new_commit[1].committer_timestamp = commit.author_timestamp + p[2]
        /\ \A p \in DOMAIN probes :
              (/\ new_commit[1].author_timestamp = commit.author_timestamp + p[1]
               /\ new_commit[1].committer_timestamp = commit.author_timestamp + p[2])
                  => probes[p].f = "true"

\* a commit returned with offsets that differ, after probes that did not
\* match
C6_Witness ==
    /\ pc = "done"
    /\ new_commit[1].author_timestamp = commit.author_timestamp + 1
    /\ new_commit[1].committer_timestamp = commit.author_timestamp + 2
    /\ new_commit[1].committer_timestamp # commit.committer_timestamp + 2
    /\ \E p \in DOMAIN probes : probes[p].f = "false"

(***************************************************************************)
(* C7.  For every probe the engine evaluates, the length written in the    *)
(* framing header, "commit " + length + NUL, is the byte length of the     *)
(* content hashed for that probe.                                          *)
(***************************************************************************)
\* the bytes hashed for the probe of pair p
Hashed(p) ==
    HashInput(m, ProbeTimestamps(commit, p[1], p[2]).author_timestamp, b,
              ProbeTimestamps(commit, p[1], p[2]).committer_timestamp, c)

\* the length its framing header states, and the number of bytes that
\* follow the header
StatedLength(input) == DecValue(SubSeq(input, Len(CommitSp) + 1, Find(input, <<0>>)))
ContentLength(input) == Len(input) - (Find(input, <<0>>) + 1)

C7_HeaderLength ==
    \A p \in DOMAIN probes : StatedLength(Hashed(p)) = ContentLength(Hashed(p))

\* the same statement for the probes whose two timestamps have ten digits
HeaderLengthTenDigits ==
    \A p \in DOMAIN probes :
        (/\ Len(ToString(commit.author_timestamp + p[1])) = TimestampWidth
         /\ Len(ToString(commit.author_timestamp + p[2])) = TimestampWidth)
            => StatedLength(Hashed(p)) = ContentLength(Hashed(p))

(***************************************************************************)
(* C9.  Every candidate the engine probes, and the pair it returns, has    *)
(* 0 <= author_offset <= committer_offset, hence an author timestamp that  *)
(* is at most the committer timestamp.                                     *)
(***************************************************************************)
OrderedOffsets(j, d) ==
    /\ 0 <= j
    /\ j <= d
    /\ ProbeTimestamps(commit, j, d).author_timestamp
          <= ProbeTimestamps(commit, j, d).committer_timestamp

C9_OrderedCandidates ==
    /\ \A p \in DOMAIN probes : OrderedOffsets(p[1], p[2])
    /\ pc = "find_any" =>
          \A j \in pending \cup DOMAIN inflight \cup hits : OrderedOffsets(j, i)
    /\ found =>
          /\ 0 <= author_timestamp - commit.author_timestamp
          /\ author_timestamp <= committer_timestamp
    /\ pc = "done" =>
          /\ 0 <= Returned[1]
          /\ Returned[1] <= Returned[2]
          /\ new_commit[1].author_timestamp <= new_commit[1].committer_timestamp

\* a pair with a smaller author offset is returned after the probes of the
\* last diagonal
C9_Witness ==
    /\ pc = "done"
    /\ Returned = <<1, MaxDiag>>
    /\ \E p \in DOMAIN probes : p[1] = p[2] /\ p[2] = MaxDiag

(***************************************************************************)
(* C10.  Probes are issued one diagonal at a time and no pair is probed    *)
(* twice: a probe of diagonal i + 1 is started only after all the i + 1    *)
(* probes of diagonal i have been evaluated exactly once and none of them  *)
(* matched.                                                                *)
(***************************************************************************)
\* every pair of the diagonals before d was evaluated once and did not
\* match
EarlierDiagonalsDone(d) ==
    \A p \in Triangle :
        p[2] < d => /\ p \in DOMAIN probes
                    /\ probes[p].n = 1
                    /\ probes[p].f = "false"

C10_OneDiagonalAtATime ==
    /\ \A p \in DOMAIN probes : probes[p].n = 1 /\ EarlierDiagonalsDone(p[2])
    /\ pc = "find_any" =>
          /\ EarlierDiagonalsDone(i)
          /\ \A j \in pending \cup DOMAIN inflight : <<j, i>> \notin DOMAIN probes
          /\ \A p \in DOMAIN probes : p[2] <= i
    /\ pc = "done" => EarlierDiagonalsDone(Returned[2])

\* a pair of the last diagonal is returned
C10_Witness ==
    /\ pc = "done"
    /\ Returned[2] = MaxDiag
    /\ Cardinality(DOMAIN probes) > (MaxDiag * (MaxDiag + 1)) \div 2

(***************************************************************************)
(* C8.  The driver loop terminates only on success, and if some pair       *)
(* <<j, i>> with 0 <= j <= i matches, then under fair scheduling the       *)
(* engine eventually returns, no later than the end of the first diagonal  *)
(* that holds a matching pair; if no pair matches it never returns.        *)
(***************************************************************************)
HasMatch == \E p \in Triangle : Matches(p)

FirstMatchingDiagonal == MinOf({p[2] : p \in {q \in Triangle : Matches(q)}})

C8_ReturnsAtFirstMatch ==
    /\ [](pc = "done" => found /\ Matches(Returned))
    /\ [](HasMatch => iter <= FirstMatchingDiagonal + 1)
    /\ [](~HasMatch => pc # "done")
    /\ (HasMatch ~> pc = "done")

\* the engine returns a pair of the last diagonal, the first one that
\* holds a match
C8_Witness ==
    /\ pc = "done"
    /\ HasMatch
    /\ FirstMatchingDiagonal = MaxDiag
    /\ Returned[2] = MaxDiag

(***************************************************************************)
(* C11.  Probes share no mutable state: each probe works on its own clone  *)
(* of the precomputed hash prefix state; the shared prefix state, the      *)
(* buffers b and c and the Search pattern are left unchanged by every      *)
(* probe; so the digest a probe computes for <<author_offset,              *)
(* committer_offset>> is the same whatever other probes run concurrently   *)
(* or ran before it.                                                       *)
(***************************************************************************)
\* the digest of the commit framed as force_prefix frames it, with the
\* offsets of pair p
DigestOf(p) ==
    Sha1Digest(CommitSp \o ToString(FramingLen(commit)) \o <<0>>
               \o Content(commit,
                          commit.author_timestamp + p[1],
                          commit.author_timestamp + p[2]))

C11_ProbesIndependent ==
    /\ [](pc # "start" =>
            /\ m = PrefixState(commit)
            /\ b = BufferB(commit)
            /\ c = BufferC(commit)
            /\ \A j \in DOMAIN inflight : inflight[j] = PrefixState(commit)
            /\ \A p \in DOMAIN probes : probes[p].h = DigestOf(p))
    /\ [][pc = "find_any" =>
            m' = m /\ b' = b /\ c' = c /\ search' = search]_vars

\* a probe of a diagonal with several pairs has computed the digest that
\* matches after another probe of that diagonal was evaluated and while a
\* third one is running
C11_Witness ==
    /\ pc = "find_any"
    /\ i >= 2
    /\ DOMAIN inflight # {}
    /\ \E p, q \in DOMAIN probes :
          /\ p # q
          /\ p[2] = i
          /\ q[2] = i
          /\ probes[p].h = DigestOne
          /\ probes[q].h = DigestZero

====
